---- MODULE Spec2Model ----
(***************************************************************************)
(* The flight control law pipeline FCS_pr_q of src/run_jsbsim.py, as a     *)
(* state machine: one control cycle (FCS_pr_q.update) is a chain of steps  *)
(* in the order of the source lines, driven by the periodic update() of    *)
(* the front end.                                                          *)
(*                                                                         *)
(* Python floats are modelled in fixed point:                              *)
(*   airspeeds            cm/s        (25 m/s = 2500)                      *)
(*   angles               whole degrees                                    *)
(*   body rates           mrad/s                                           *)
(*   accelerations        cm/s^2, load factors in 1/1000 g                 *)
(*   flying_confidence    1/10000     (1.0 = 10000)                        *)
(*   dynamic pressure     Pa                                               *)
(*   surface commands and integral terms   1/10000                         *)
(*   stick and throttle   1/1000                                           *)
(* Divisions truncate toward zero (Quot).                                  *)
(*                                                                         *)
(* The class NotaPID used at lines 91-93, 176-178 and 192-194 is not among *)
(* the source files; its two operations are modelled from section 4.4 of   *)
(* the specification (get_ref_value = shape, integrator = integrate).      *)
(***************************************************************************)
EXTENDS Integers, Sequences, FiniteSets, TLC

VARIABLES
    pc,             \* position of the front end / of update() in its body
    cycles,         \* control cycles started so far
    vehicle,        \* vel_node, att_node, accel_node, aero_node: the published vehicle state
    inceptor_node,  \* the pilot command snapshot
    fcs,            \* the persistent fields of FCS_pr_q (filters, integral terms)
    loc,            \* the values update() computes during one cycle
    control_node,   \* control_flight_node and control_engine_node: the outputs
    hist,           \* history: steps run and writes made in the current cycle
    config,         \* the configuration the controller is built from
    comms_lock,     \* comms_mgr.comms_lock: "free" or the thread holding it
    comms_queue,    \* comms_mgr.comms_queue: the datagrams appended and not yet cleared
    worker,         \* CommsWorker.run: position in the loop, datagram in hand
    manager,        \* CommsManager.update: position in the body, the local data
    net             \* history: datagrams sent, appended, consumed

comms_vars == <<comms_lock, comms_queue, worker, manager, net>>

control_vars == <<pc, cycles, vehicle, inceptor_node, fcs, loc, control_node, hist, config>>

vars == <<pc, cycles, vehicle, inceptor_node, fcs, loc, control_node, hist, config,
          comms_lock, comms_queue, worker, manager, net>>

-----------------------------------------------------------------------------
(* Bounds of the model *)

\* control cycles explored from each initial state
MaxCycles == 2

\* datagrams the socket delivers
MaxDatagrams == 3

\* calls of CommsManager.update
MaxUpdates == 3

-----------------------------------------------------------------------------
(* Arithmetic helpers *)

\* Python's float division, in fixed point: truncation toward zero
Quot(a, b) ==
    IF (a >= 0) = (b > 0) THEN (IF a >= 0 THEN a ELSE -a) \div (IF b > 0 THEN b ELSE -b)
    ELSE -((IF a >= 0 THEN a ELSE -a) \div (IF b > 0 THEN b ELSE -b))

\* abs()
Abs(a) == IF a >= 0 THEN a ELSE -a

\* math.sin of an angle in degrees, in 1/1000, for the angles of the model
SinTab(d) ==
    CASE d = 0 -> 0 [] d = 5 -> 87 [] d = 10 -> 174 [] d = 20 -> 342 [] d = 45 -> 707
      [] d = 75 -> 966 [] d = 89 -> 1000 [] d = 90 -> 1000

sin(d) == IF d >= 0 THEN SinTab(d) ELSE -SinTab(-d)

\* math.cos of an angle in degrees, in 1/1000
cos(d) ==
    CASE Abs(d) = 0 -> 1000 [] Abs(d) = 5 -> 996 [] Abs(d) = 10 -> 985 [] Abs(d) = 20 -> 940
      [] Abs(d) = 45 -> 707 [] Abs(d) = 75 -> 259 [] Abs(d) = 89 -> 17 [] Abs(d) = 90 -> 0

\* math.tan of an angle in degrees, in 1/1000; tabulated below 90 degrees only
TanTab(d) ==
    CASE d = 0 -> 0 [] d = 5 -> 87 [] d = 10 -> 176 [] d = 20 -> 364 [] d = 45 -> 1000
      [] d = 75 -> 3732 [] d = 89 -> 57290

tan(d) == IF d >= 0 THEN TanTab(d) ELSE -TanTab(-d)

-----------------------------------------------------------------------------
(* Constants of lib.constants and of FCS_pr_q.__init__ *)

\* gravity, cm/s^2
gravity == 981

\* the 25 m/s floor of the airspeeds
min_airspeed == 2500

\* 30 * d2r, 30 * d2r, 20 * d2r in mrad/s per unit of stick
roll_stick_scale == 524

pitch_stick_scale == 524

yaw_stick_scale == 349

on_ground_for_sure_mps == 3000

flying_for_sure_mps == 4000

alpha_limit_deg == 13

bank_limit_deg == 60

roll_damp_gain == 1500

pitch_damp_gain == 1500

yaw_damp_gain == 1500

\* d2r * 2 and d2r * 0.5 in micro-rad per degree (lines 168, 172, 173)
d2r_x2 == 34907

d2r_half == 8727

\* the largest argument, in 1/100, math.exp takes without OverflowError
\* (ln of the largest double is 709.78)
ExpMaxArg == 70978

-----------------------------------------------------------------------------
(* NotaPID: the rate reference shaper, one instance per axis *)

\* seconds per control cycle, in ms
dt == 20

\* the constructor: integral_gain in 1/100, antiwindup in 1/10000,
\* neutral_tolerance in mrad/s
NotaPID(name, min_hold, max_hold, integral_gain, antiwindup, neutral_tolerance) ==
    [name |-> name, min_hold |-> min_hold, max_hold |-> max_hold,
     integral_gain |-> integral_gain, antiwindup |-> antiwindup,
     neutral_tolerance |-> neutral_tolerance]

\* an absent clamp bound (None) and a supplied one
None == <<>>

Some(v) == <<v>>

\* shape: blend the stick command toward the baseline by the confidence, snap a
\* command within the neutral tolerance of the baseline to the baseline, clamp
\* to the bounds that are supplied. Reads the instance, writes nothing.
get_ref_value(h, input_cmd, ff_cmd, min_val, max_val, cur_val, confidence) ==
    LET blended == ff_cmd + Quot(confidence * (input_cmd - ff_cmd), 10000)
        snapped == IF Abs(input_cmd - ff_cmd) <= h.neutral_tolerance THEN ff_cmd ELSE blended
        below   == IF max_val # None /\ snapped > max_val[1] THEN max_val[1] ELSE snapped
    IN  IF min_val # None /\ below < min_val[1] THEN min_val[1] ELSE below

\* integrate: the new stored integral term, which is also the value returned:
\* error_sum + gain * (ref - measured) * confidence * dt, clamped to +-antiwindup
integrator(h, error_sum, ref_val, cur_val, confidence) ==
    LET step == Quot(Quot(h.integral_gain * (ref_val - cur_val) * dt, 10000) * confidence, 10000)
        sum  == error_sum + step
    IN  IF sum < -h.antiwindup THEN -h.antiwindup
        ELSE IF sum > h.antiwindup THEN h.antiwindup
        ELSE sum

\* roll built with the pitch axis's anti-windup limit
roll_helper_pitch_limit == NotaPID("roll", -45, 45, 100, 5000, 20)

\* the three instances FCS_pr_q.__init__ builds
roll_helper == NotaPID("roll", -45, 45, 100, 2500, 20)

pitch_helper == NotaPID("pitch", -15, 15, -400, 5000, 30)

yaw_helper == NotaPID("yaw", -20, 20, -1, 2500, 20)

-----------------------------------------------------------------------------
(* The computations of FCS_pr_q.update, in source order *)

\* the floor left out
clamp_airspeed_missing(v) == v

\* if v < 25: v = 25
clamp_airspeed(v) == IF v < min_airspeed THEN min_airspeed ELSE v

\* 0.99 * filtered + 0.01 * v
lowpass(filtered, v) == Quot(99 * filtered + v, 100)

\* qbar = 0.5 * vc_mps**2 * rho with rho = 1.225: 0.6125 = 49/80
Qbar(vc) == Quot(Quot((vc \div 10) * (vc \div 10), 100) * 49, 80)

\* x = 10 * (vc_mps - on_ground_for_sure_mps) / diff - 5, in 1/100
regime_x(vc) ==
    LET diff == flying_for_sure_mps - on_ground_for_sure_mps
    IN  Quot(10 * (vc - on_ground_for_sure_mps) * 100, diff) - 500

\* math.exp(x) raises OverflowError
exp_overflows(x) == x > ExpMaxArg

\* 10000 * exp(k) / (1 + exp(k)) at the whole numbers k = -10 .. 10
SigmoidKnot(k) ==
    <<0, 1, 3, 9, 25, 67, 180, 474, 1192, 2689, 5000,
      7311, 8808, 9526, 9820, 9933, 9975, 9991, 9997, 9999, 10000>>[k + 11]

\* exp(x) / (1 + exp(x)) for x in 1/100 that exp accepts: the knots, joined by lines
sigmoid(x) ==
    IF x >= 1000 THEN 10000
    ELSE IF x < -1000 THEN 0
    ELSE LET k == (x + 1000) \div 100 - 10
         IN  SigmoidKnot(k) + ((SigmoidKnot(k + 1) - SigmoidKnot(k)) * (x - 100 * k)) \div 100

\* the comparison turned around
alpha_beta_reversed(confidence, theta_deg, sensed_alpha_deg, sensed_beta_deg) ==
    IF confidence < 5000
    THEN [alpha_deg |-> sensed_alpha_deg, beta_deg |-> sensed_beta_deg]
    ELSE [alpha_deg |-> theta_deg, beta_deg |-> 0]

\* lines 130-141: the alpha and beta the cycle uses
alpha_beta(confidence, theta_deg, sensed_alpha_deg, sensed_beta_deg) ==
    IF confidence > 5000
    THEN [alpha_deg |-> sensed_alpha_deg, beta_deg |-> sensed_beta_deg]
    ELSE [alpha_deg |-> theta_deg, beta_deg |-> 0]

\* the guard with <= for <
tan_guard_inclusive(phi_deg) == Abs(phi_deg) <= 89

\* line 148: the guard of the tangent
tan_guard(phi_deg) == Abs(phi_deg) < 89

\* lines 148-151: turn_rate_rps, from the local (floored, unfiltered) vtrue_mps
turn_rate(phi_deg, vtrue) ==
    IF tan_guard(phi_deg) THEN Quot(tan(phi_deg) * (-gravity), vtrue) ELSE 0

\* lines 154-155
baseline_q_of(phi_deg, turn_rate_rps) == Quot(sin(phi_deg) * turn_rate_rps, 1000)

baseline_r_of(phi_deg, turn_rate_rps) == Quot(cos(phi_deg) * turn_rate_rps, 1000)

\* lines 159-161: stick -> rate command
roll_rate_cmd_of(inc) == Quot(inc.aileron * roll_stick_scale, 1000)

pitch_rate_cmd_of(inc) == Quot((-inc.elevator) * pitch_stick_scale, 1000)

yaw_rate_cmd_of(inc) == Quot(inc.rudder * yaw_stick_scale, 1000)

\* the difference turned around
max_q_of_reversed(alpha_deg) == Quot((alpha_deg - alpha_limit_deg) * d2r_x2, 1000)

\* line 168: max_q = (alpha_limit_deg - alpha_deg) * d2r * 2
max_q_of(alpha_deg) == Quot((alpha_limit_deg - alpha_deg) * d2r_x2, 1000)

\* lines 172-173
max_p_of(phi_deg) == Quot((bank_limit_deg - phi_deg) * d2r_half, 1000)

min_p_of(phi_deg) == Quot((-bank_limit_deg - phi_deg) * d2r_half, 1000)

\* accel_node Ny * gravity
ay_of(Ny) == Quot(Ny * gravity, 1000)

\* line 117: gbody_y = sin(phi) * cos(theta) * gravity
gbody_y_of(phi_deg, theta_deg) == Quot(Quot(sin(phi_deg) * cos(theta_deg), 1000) * gravity, 1000)

\* lines 235-242: the lateral allocation matrices (B_lat in 1/1000000)
Ainv_lat == << <<5539, -657>>, <<-630, 7844>> >>

B_lat ==
    << <<-181019, -5232, -171, 1287, 4112902, -12911>>,
       <<-281481, 2732, -11316, 2610, 7031756, 11048>> >>

\* lines 251-256: the longitudinal ones
Ainv_lon == << <<-4997>> >>

B_lon == << <<156401, -432, 15961, -175, -1606, -5957541>> >>

\* one row of B @ b, in 1/1000: b = [1, f2, f3, f4, f5, f6] with f2, f3 accelerations
\* in cm/s^2 and the two airspeed features given by vc
Bb(row, f2, f3, f4_num, f4_den, f5_num, f5_den, f6) ==
    Quot(row[1] + Quot(row[2] * f2, 100) + Quot(row[3] * f3, 100)
         + Quot(row[4] * f4_num, f4_den) + Quot(row[5] * f5_num, f5_den) + row[6] * f6, 1000)

\* lines 243-248: y = (Ainv_lat @ x - B_lat @ b) / qbar,
\* b = [1, ay, gbody_y, vc_mps, 1/vc_mps, beta_deg]
lat_func(ref_p, ref_beta, l, vc) ==
    [i \in 1..2 |->
        Quot((Ainv_lat[i][1] * ref_p + Ainv_lat[i][2] * ref_beta
              - Bb(B_lat[i], l.ay, l.gbody_y, vc, 100, 100, vc, l.beta_deg)) * 10, l.qbar)]

\* lines 257-262: y = (Ainv_lon @ x - B_lon @ b) / qbar,
\* b = [1, ay, abs(ay), gbody_y, vc_mps, 1/vc_mps]
lon_func(ref_q, l, vc) ==
    Quot((Ainv_lon[1][1] * ref_q
          - Quot(B_lon[1][1] + Quot(B_lon[1][2] * l.ay, 100) + Quot(B_lon[1][3] * Abs(l.ay), 100)
                 + Quot(B_lon[1][4] * l.gbody_y, 100) + Quot(B_lon[1][5] * vc, 100)
                 + Quot(B_lon[1][6] * 100, vc), 1000)) * 10, l.qbar)

\* lines 199-201: rate * damp_gain / qbar
damp_of(rate, gain, qbar) == Quot(rate * gain * 10, qbar)

-----------------------------------------------------------------------------
(* Inputs of the model *)

\* an airspeed reading far above any aircraft's (73 km/s)
HugeAirspeed == 7300000

\* vehicle states the flight-dynamics engine publishes
VehicleStates ==
    { \* level cruise
      [vc_mps |-> 6000, vtrue_mps |-> 6000, phi_deg |-> 0, theta_deg |-> 0,
       p_rps |-> 0, q_rps |-> 0, r_rps |-> 0, Ny |-> 0, alpha_deg |-> 2, beta_deg |-> 0],
      \* level, angle of attack beyond the limit
      [vc_mps |-> 6000, vtrue_mps |-> 6000, phi_deg |-> 0, theta_deg |-> 0,
       p_rps |-> 0, q_rps |-> 0, r_rps |-> 0, Ny |-> 0, alpha_deg |-> 20, beta_deg |-> 0],
      \* parked, nose up
      [vc_mps |-> 0, vtrue_mps |-> 0, phi_deg |-> 0, theta_deg |-> 20,
       p_rps |-> 0, q_rps |-> 0, r_rps |-> 0, Ny |-> 0, alpha_deg |-> 5, beta_deg |-> 3],
      \* negative airspeed readings, banked left, rolling
      [vc_mps |-> -500, vtrue_mps |-> -300, phi_deg |-> -45, theta_deg |-> 5,
       p_rps |-> -1000, q_rps |-> 1000, r_rps |-> -1000, Ny |-> -100, alpha_deg |-> 5, beta_deg |-> -2],
      \* coordinated right turn
      [vc_mps |-> 6000, vtrue_mps |-> 6500, phi_deg |-> 45, theta_deg |-> 5,
       p_rps |-> 1000, q_rps |-> -1000, r_rps |-> 1000, Ny |-> 100, alpha_deg |-> 10, beta_deg |-> 1],
      \* knife edge, just at the tangent guard
      [vc_mps |-> 6000, vtrue_mps |-> 6000, phi_deg |-> 89, theta_deg |-> 0,
       p_rps |-> 1000, q_rps |-> 0, r_rps |-> 0, Ny |-> 0, alpha_deg |-> 5, beta_deg |-> 0],
      \* beyond it
      [vc_mps |-> 3000, vtrue_mps |-> 3000, phi_deg |-> -90, theta_deg |-> 0,
       p_rps |-> 0, q_rps |-> 0, r_rps |-> 1000, Ny |-> 0, alpha_deg |-> 5, beta_deg |-> 0],
      \* an absurd calibrated airspeed reading
      [vc_mps |-> HugeAirspeed, vtrue_mps |-> 6000, phi_deg |-> 0, theta_deg |-> 0,
       p_rps |-> 0, q_rps |-> 0, r_rps |-> 0, Ny |-> 0, alpha_deg |-> 2, beta_deg |-> 0] }

\* pilot command snapshots the joystick publishes
PilotCmds ==
    { \* hands off
      [aileron |-> 0, elevator |-> 0, rudder |-> 0, throttle |-> 0,
       flaps_up |-> FALSE, flaps_down |-> FALSE],
      \* full right stick, full throttle, flaps up
      [aileron |-> 1000, elevator |-> 0, rudder |-> 0, throttle |-> 1000,
       flaps_up |-> TRUE, flaps_down |-> FALSE],
      \* pull and rudder, half throttle, flaps down
      [aileron |-> -20, elevator |-> -1000, rudder |-> 1000, throttle |-> 500,
       flaps_up |-> FALSE, flaps_down |-> TRUE] }

\* the controller as constructed (lines 66-93), and as earlier cycles leave it:
\* filters settled at 60 m/s, integral terms at zero or wound up close to their limits
ControllerStates ==
    { [vc_mps |-> 2500, vtrue_mps |-> 2500, integral |-> [roll |-> 0, pitch |-> 0, yaw |-> 0]],
      [vc_mps |-> 6000, vtrue_mps |-> 6000, integral |-> [roll |-> 0, pitch |-> 0, yaw |-> 0]],
      [vc_mps |-> 6000, vtrue_mps |-> 6000,
       integral |-> [roll |-> -2400, pitch |-> -4900, yaw |-> 2499]] }

-----------------------------------------------------------------------------
(* Configuration *)

\* the configuration as written in the source: the shapes of the allocation
\* matrices (lines 235-256) and the per-axis tuning (lines 91-93)
shipped_config ==
    [Ainv_lat |-> <<2, 2>>, B_lat |-> <<2, 6>>, Ainv_lon |-> <<1, 1>>, B_lon |-> <<1, 6>>,
     roll |-> roll_helper, pitch |-> pitch_helper, yaw |-> yaw_helper]

\* the shipped configuration and edits of it: a bias matrix with a column
\* missing, matrices with a column too many, clamp bounds the wrong way
\* round, a negative anti-windup limit
Configurations ==
    { shipped_config,
      [shipped_config EXCEPT !.B_lat = <<2, 5>>],
      [shipped_config EXCEPT !.Ainv_lon = <<1, 2>>],
      [shipped_config EXCEPT !.B_lon = <<1, 7>>],
      [shipped_config EXCEPT !.roll = NotaPID("roll", 45, -45, 100, 2500, 20)],
      [shipped_config EXCEPT !.pitch = NotaPID("pitch", -15, 15, -400, -5000, 30)] }

\* numpy: matrix @ vector is defined when the matrix has as many columns as
\* the vector has entries, and raises ValueError otherwise
matmul_defined(shape, n) == shape[2] = n

\* numpy: two vectors subtract when their lengths agree or one of them is 1
broadcasts(m, n) == m = n \/ m = 1 \/ n = 1

\* lines 243-248 and 184: lat_func multiplies Ainv_lat by [ref_p, ref_beta] and
\* B_lat by the six features, subtracts, and the caller unpacks two values
lat_func_defined(c) ==
    /\ matmul_defined(c.Ainv_lat, 2)
    /\ matmul_defined(c.B_lat, 6)
    /\ broadcasts(c.Ainv_lat[1], c.B_lat[1])
    /\ (IF c.Ainv_lat[1] > c.B_lat[1] THEN c.Ainv_lat[1] ELSE c.B_lat[1]) = 2

\* lines 257-262: lon_func multiplies Ainv_lon by [ref_q] and B_lon by the six
\* features, subtracts, and returns the first entry
lon_func_defined(c) ==
    /\ matmul_defined(c.Ainv_lon, 1)
    /\ matmul_defined(c.B_lon, 6)
    /\ broadcasts(c.Ainv_lon[1], c.B_lon[1])

\* section 7 of the specification, for the constructor of the helper that is
\* not among the source files: inconsistent tuning is detected when the helper
\* is constructed
tuning_consistent(h) == h.min_hold <= h.max_hold /\ h.antiwindup >= 0

\* the fields before __init__ has assigned them
Unconstructed == [vc_mps |-> 0, vtrue_mps |-> 0, integral |-> [roll |-> 0, pitch |-> 0, yaw |-> 0]]

\* lines 68-69 and the helpers' integral terms after __init__
Constructed ==
    [vc_mps |-> min_airspeed, vtrue_mps |-> min_airspeed,
     integral |-> [roll |-> 0, pitch |-> 0, yaw |-> 0]]

-----------------------------------------------------------------------------
(* State *)

Persistent == {"vc_mps", "vtrue_mps", "roll", "pitch", "yaw"}

\* the per-cycle values before update() has computed any of them
LocInit ==
    [throttle_cmd |-> 0, vtrue_mps |-> min_airspeed, qbar |-> 0, phi_deg |-> 0, theta_deg |-> 0,
     p |-> 0, q |-> 0, r |-> 0, ay |-> 0, gbody_y |-> 0,
     flying_confidence |-> 0, alpha_deg |-> 0, beta_deg |-> 0,
     turn_rate_rps |-> 0, baseline_q |-> 0, baseline_r |-> 0,
     max_q |-> 0, max_p |-> 0, min_p |-> 0, ref_p |-> 0, ref_q |-> 0, ref_r |-> 0,
     raw_aileron_cmd |-> 0, raw_rudder_cmd |-> 0, raw_elevator_cmd |-> 0,
     aileron_int |-> 0, elevator_int |-> 0, rudder_int |-> 0,
     aileron_damp |-> 0, elevator_damp |-> 0, rudder_damp |-> 0]

\* nothing run, nothing written; the state the cycle started from
HistStart(f, c, v, i, completed) ==
    [order |-> <<>>, writes |-> [x \in Persistent |-> 0], tan_evaluated |-> FALSE,
     fcs_before |-> f, control_before |-> c, vehicle_before |-> v, inceptor_before |-> i,
     prev_completed |-> completed]

Ran(step) == [hist EXCEPT !.order = Append(@, step)]

\* step `step` of the current cycle has run
After(step) == \E i \in DOMAIN hist.order : hist.order[i] = step

\* step x ran before every run of step y in the current cycle
Before(x, y) ==
    \A j \in DOMAIN hist.order :
        hist.order[j] = y => \E i \in 1..(j - 1) : hist.order[i] = x

\* an invocation of update() has ended, by return or by an exception
CycleEnded == cycles > 0 /\ pc \in {"idle", "raised"}

\* the allocator called before the references are shaped
after_step_allocate_first(step) ==
    CASE step = "fetch" -> "regime"
      [] step = "regime" -> "aero"
      [] step = "aero" -> "feedforward"
      [] step = "feedforward" -> "allocate"
      [] step = "allocate" -> "shape"
      [] step = "shape" -> "integrate"
      [] step = "integrate" -> "damp"
      [] step = "damp" -> "compose"
      [] step = "compose" -> "idle"

\* the statement order of update(): the step that follows `step`
after_step(step) ==
    CASE step = "fetch" -> "regime"
      [] step = "regime" -> "aero"
      [] step = "aero" -> "feedforward"
      [] step = "feedforward" -> "shape"
      [] step = "shape" -> "allocate"
      [] step = "allocate" -> "integrate"
      [] step = "integrate" -> "damp"
      [] step = "damp" -> "compose"
      [] step = "compose" -> "idle"

\* lines 15-16 of comms_mgr.py and the threads before either has run
CommsInit ==
    /\ comms_lock = "free"
    /\ comms_queue = <<>>
    /\ worker = [pc |-> "recvfrom", data |-> None]
    /\ manager = [pc |-> "return", data |-> None, updates |-> 0]
    /\ net = [sent |-> 0, appended |-> <<>>, cleared |-> 0, consumed |-> <<>>,
              waited |-> FALSE]

Init ==
    /\ pc = "idle"
    /\ cycles = 0
    /\ vehicle \in VehicleStates
    /\ vehicle.vc_mps = 0
    /\ inceptor_node \in PilotCmds
    /\ inceptor_node.throttle = 0
    /\ fcs \in ControllerStates
    /\ loc = LocInit
    /\ control_node = [aileron |-> 0, elevator |-> 0, rudder |-> 0,
                       flaps_down |-> FALSE, flaps_up |-> FALSE, throttle |-> 0]
    /\ hist = HistStart(fcs, control_node, vehicle, inceptor_node, FALSE)
    /\ config = shipped_config
    /\ CommsInit

\* the program before FCS_pr_q() is called, for each configuration
ConfigInit ==
    /\ pc = "new"
    /\ cycles = 0
    /\ vehicle \in VehicleStates
    /\ vehicle.vc_mps = 0
    /\ inceptor_node \in PilotCmds
    /\ inceptor_node.throttle = 0
    /\ fcs = Unconstructed
    /\ loc = LocInit
    /\ control_node = [aileron |-> 0, elevator |-> 0, rudder |-> 0,
                       flaps_down |-> FALSE, flaps_up |-> FALSE, throttle |-> 0]
    /\ hist = HistStart(fcs, control_node, vehicle, inceptor_node, FALSE)
    /\ config \in Configurations
    /\ CommsInit

-----------------------------------------------------------------------------
(* Steps *)

\* lines 64-93: FCS_pr_q.__init__ assigns the fields and builds the three
\* helpers; it looks at no matrix. A helper whose tuning is inconsistent
\* fails to construct, and the exception ends the program.
Construct ==
    /\ pc = "new"
    /\ \/ /\ \A h \in {config.roll, config.pitch, config.yaw} : tuning_consistent(h)
          /\ fcs' = Constructed
          /\ pc' = "idle"
       \/ /\ \E h \in {config.roll, config.pitch, config.yaw} : ~tuning_consistent(h)
          /\ fcs' = fcs
          /\ pc' = "construct_failed"
    /\ UNCHANGED <<cycles, vehicle, inceptor_node, loc, control_node, hist>>
    /\ UNCHANGED <<config, comms_vars>>

\* update() of the front end, lines 268-276: the joystick and the simulation
\* publish the snapshots the next control cycle reads. A cycle that raised does
\* not stop the scheduler's job.
PublishProps ==
    /\ pc \in {"idle", "raised"}
    /\ cycles < MaxCycles
    /\ \E v \in VehicleStates, i \in PilotCmds :
          /\ vehicle' = v
          /\ inceptor_node' = i
    /\ hist' = HistStart(fcs, control_node, vehicle, inceptor_node, pc = "idle" /\ cycles > 0)
    /\ loc' = LocInit
    /\ cycles' = cycles + 1
    /\ pc' = "fetch"
    /\ UNCHANGED <<fcs, control_node>>
    /\ UNCHANGED <<config, comms_vars>>

\* lines 97-119: fetch the inputs, filter the airspeeds, compute qbar
Fetch ==
    /\ pc = "fetch"
    /\ LET vc_mps    == clamp_airspeed(vehicle.vc_mps)
           vtrue_mps == clamp_airspeed(vehicle.vtrue_mps)
           vc_filt   == lowpass(fcs.vc_mps, vc_mps)
       IN  /\ fcs' = [fcs EXCEPT !.vc_mps = vc_filt,
                                 !.vtrue_mps = lowpass(fcs.vtrue_mps, vtrue_mps)]
           /\ loc' = [loc EXCEPT !.throttle_cmd = inceptor_node.throttle,
                                 !.vtrue_mps = vtrue_mps,
                                 !.qbar = Qbar(vc_filt),
                                 !.phi_deg = vehicle.phi_deg,
                                 !.theta_deg = vehicle.theta_deg,
                                 !.p = vehicle.p_rps, !.q = vehicle.q_rps, !.r = vehicle.r_rps,
                                 !.ay = ay_of(vehicle.Ny),
                                 !.gbody_y = gbody_y_of(vehicle.phi_deg, vehicle.theta_deg)]
    /\ hist' = [Ran("fetch") EXCEPT !.writes.vc_mps = @ + 1, !.writes.vtrue_mps = @ + 1]
    /\ pc' = after_step("fetch")
    /\ UNCHANGED <<cycles, vehicle, inceptor_node, control_node>>
    /\ UNCHANGED <<config, comms_vars>>

\* lines 121-128: the flight regime estimator; math.exp raises OverflowError
\* on a large argument and the exception leaves update()
Regime ==
    /\ pc = "regime"
    /\ hist' = Ran("regime")
    /\ \/ /\ ~exp_overflows(regime_x(fcs.vc_mps))
          /\ loc' = [loc EXCEPT !.flying_confidence = sigmoid(regime_x(fcs.vc_mps))]
          /\ pc' = after_step("regime")
       \/ /\ exp_overflows(regime_x(fcs.vc_mps))
          /\ loc' = loc
          /\ pc' = "raised"
    /\ UNCHANGED <<cycles, vehicle, inceptor_node, fcs, control_node>>
    /\ UNCHANGED <<config, comms_vars>>

\* lines 130-141: alpha and beta, sensed or approximated
AeroEstimate ==
    /\ pc = "aero"
    /\ LET ab == alpha_beta(loc.flying_confidence, loc.theta_deg,
                            vehicle.alpha_deg, vehicle.beta_deg)
       IN  loc' = [loc EXCEPT !.alpha_deg = ab.alpha_deg, !.beta_deg = ab.beta_deg]
    /\ hist' = Ran("aero")
    /\ pc' = after_step("aero")
    /\ UNCHANGED <<cycles, vehicle, inceptor_node, fcs, control_node>>
    /\ UNCHANGED <<config, comms_vars>>

\* lines 143-155: the feed-forward baselines of a steady level turn
FeedForward ==
    /\ pc = "feedforward"
    /\ LET tr == turn_rate(loc.phi_deg, loc.vtrue_mps)
       IN  loc' = [loc EXCEPT !.turn_rate_rps = tr,
                              !.baseline_q = baseline_q_of(loc.phi_deg, tr),
                              !.baseline_r = baseline_r_of(loc.phi_deg, tr)]
    /\ hist' = [Ran("feedforward") EXCEPT !.tan_evaluated = tan_guard(loc.phi_deg)]
    /\ pc' = after_step("feedforward")
    /\ UNCHANGED <<cycles, vehicle, inceptor_node, fcs, control_node>>
    /\ UNCHANGED <<config, comms_vars>>

\* the roll reference called the way the yaw reference is, without bounds
ref_p_of_unbounded(l, inc) ==
    get_ref_value(roll_helper, roll_rate_cmd_of(inc), 0, None, None,
                  l.phi_deg, l.flying_confidence)

\* line 176: the roll reference, clamped to the bank limits
ref_p_of(l, inc) ==
    get_ref_value(roll_helper, roll_rate_cmd_of(inc), 0,
                  Some(min_p_of(l.phi_deg)), Some(max_p_of(l.phi_deg)),
                  l.phi_deg, l.flying_confidence)

\* line 177: the pitch reference, clamped from above by the alpha limit
ref_q_of(l, inc) ==
    get_ref_value(pitch_helper, pitch_rate_cmd_of(inc), l.baseline_q,
                  None, Some(max_q_of(l.alpha_deg)),
                  l.theta_deg, l.flying_confidence)

\* line 178: the yaw reference, not clamped
ref_r_of(l, inc) ==
    get_ref_value(yaw_helper, yaw_rate_cmd_of(inc), l.baseline_r,
                  None, None, 0, l.flying_confidence)

\* lines 158-178: pilot commands, envelope bounds, the three references
Shape ==
    /\ pc = "shape"
    /\ loc' = [loc EXCEPT !.max_q = max_q_of(loc.alpha_deg),
                          !.max_p = max_p_of(loc.phi_deg),
                          !.min_p = min_p_of(loc.phi_deg),
                          !.ref_p = ref_p_of(loc, inceptor_node),
                          !.ref_q = ref_q_of(loc, inceptor_node),
                          !.ref_r = ref_r_of(loc, inceptor_node)]
    /\ hist' = Ran("shape")
    /\ pc' = after_step("shape")
    /\ UNCHANGED <<cycles, vehicle, inceptor_node, fcs, control_node>>
    /\ UNCHANGED <<config, comms_vars>>

\* lines 184-185: the model-based surface positions
Allocate ==
    /\ pc = "allocate"
    /\ \/ /\ lat_func_defined(config) /\ lon_func_defined(config)
          /\ LET lat == lat_func(loc.ref_p, loc.ref_r, loc, fcs.vc_mps)
             IN  loc' = [loc EXCEPT !.raw_aileron_cmd = lat[1],
                                    !.raw_rudder_cmd = lat[2],
                                    !.raw_elevator_cmd = lon_func(loc.ref_q, loc, fcs.vc_mps)]
          /\ pc' = after_step("allocate")
       \/ /\ ~(lat_func_defined(config) /\ lon_func_defined(config))
          /\ loc' = loc
          /\ pc' = "raised"
    /\ hist' = Ran("allocate")
    /\ UNCHANGED <<cycles, vehicle, inceptor_node, fcs, control_node>>
    /\ UNCHANGED <<config, comms_vars>>

\* lines 192-194: the integrators; each call stores and returns the integral term
Integrate ==
    /\ pc = "integrate"
    /\ LET aileron_int  == integrator(roll_helper, fcs.integral.roll,
                                      loc.ref_p, loc.p, loc.flying_confidence)
           elevator_int == integrator(pitch_helper, fcs.integral.pitch,
                                      loc.ref_q, loc.q, loc.flying_confidence)
           rudder_int   == integrator(yaw_helper, fcs.integral.yaw,
                                      loc.ref_r, loc.r, loc.flying_confidence)
       IN  /\ fcs' = [fcs EXCEPT !.integral =
                         [roll |-> aileron_int, pitch |-> elevator_int, yaw |-> rudder_int]]
           /\ loc' = [loc EXCEPT !.aileron_int = aileron_int,
                                 !.elevator_int = elevator_int,
                                 !.rudder_int = rudder_int]
    /\ hist' = [Ran("integrate") EXCEPT !.writes.roll = @ + 1, !.writes.pitch = @ + 1,
                                        !.writes.yaw = @ + 1]
    /\ pc' = after_step("integrate")
    /\ UNCHANGED <<cycles, vehicle, inceptor_node, control_node>>
    /\ UNCHANGED <<config, comms_vars>>

\* lines 199-201: the dampers
Damp ==
    /\ pc = "damp"
    /\ loc' = [loc EXCEPT
                 !.aileron_damp = damp_of(loc.p, roll_damp_gain, loc.qbar),
                 !.elevator_damp = damp_of(loc.q - loc.baseline_q, pitch_damp_gain, loc.qbar),
                 !.rudder_damp = damp_of(loc.r - loc.baseline_r, yaw_damp_gain, loc.qbar)]
    /\ hist' = Ran("damp")
    /\ pc' = after_step("damp")
    /\ UNCHANGED <<cycles, vehicle, inceptor_node, fcs, control_node>>
    /\ UNCHANGED <<config, comms_vars>>

\* lines 214-218: what the cycle writes to the flap and throttle outputs
passthrough(inc) ==
    [flaps_down |-> inc.flaps_down, flaps_up |-> inc.flaps_up, throttle |-> inc.throttle]

\* lines 204-218: the final commands and the outputs
Compose ==
    /\ pc = "compose"
    /\ LET thru == passthrough(inceptor_node)
       IN  control_node' =
             [aileron |-> loc.raw_aileron_cmd + loc.aileron_int - loc.aileron_damp,
              elevator |-> loc.raw_elevator_cmd + loc.elevator_int + loc.elevator_damp,
              rudder |-> loc.raw_rudder_cmd + loc.rudder_int - loc.rudder_damp,
              flaps_down |-> thru.flaps_down,
              flaps_up |-> thru.flaps_up,
              throttle |-> thru.throttle]
    /\ hist' = Ran("compose")
    /\ pc' = after_step("compose")
    /\ UNCHANGED <<cycles, vehicle, inceptor_node, fcs, loc>>
    /\ UNCHANGED <<config, comms_vars>>

Next ==
    \/ PublishProps
    \/ Fetch
    \/ Regime
    \/ AeroEstimate
    \/ FeedForward
    \/ Shape
    \/ Allocate
    \/ Integrate
    \/ Damp
    \/ Compose

Spec == Init /\ [][Next]_vars

\* the program from the construction of the controller on
ConfigNext ==
    \/ Construct
    \/ Next

ConfigSpec == ConfigInit /\ [][ConfigNext]_vars

-----------------------------------------------------------------------------
(* The datagram queue of comms_mgr.py *)

\* the mutex handed out to whoever asks, held or not
lock_ignored(l) == TRUE

\* comms_lock.acquire() returns once no thread holds the lock
lock_available(l) == l = "free"

\* line 28: recvfrom blocks until the socket delivers the next datagram;
\* datagrams are numbered in arrival order
CommsWorker_recvfrom ==
    /\ worker.pc = "recvfrom"
    /\ net.sent < MaxDatagrams
    /\ worker' = [pc |-> "acquire", data |-> Some(net.sent + 1)]
    /\ net' = [net EXCEPT !.sent = @ + 1]
    /\ UNCHANGED <<comms_lock, comms_queue, manager>>
    /\ UNCHANGED control_vars

\* line 32
CommsWorker_acquire ==
    /\ worker.pc = "acquire"
    /\ lock_available(comms_lock)
    /\ comms_lock' = "worker"
    /\ worker' = [worker EXCEPT !.pc = "append"]
    /\ UNCHANGED <<comms_queue, manager, net>>
    /\ UNCHANGED control_vars

\* line 33
CommsWorker_append ==
    /\ worker.pc = "append"
    /\ comms_queue' = Append(comms_queue, worker.data[1])
    /\ net' = [net EXCEPT !.appended = Append(@, worker.data[1])]
    /\ worker' = [worker EXCEPT !.pc = "release"]
    /\ UNCHANGED <<comms_lock, manager>>
    /\ UNCHANGED control_vars

\* line 34, then back to the head of the loop
CommsWorker_release ==
    /\ worker.pc = "release"
    /\ comms_lock' = "free"
    /\ worker' = [pc |-> "recvfrom", data |-> None]
    /\ UNCHANGED <<comms_queue, manager, net>>
    /\ UNCHANGED control_vars

\* lines 65-66: update() is called and sets data = None
CommsManager_update ==
    /\ manager.pc = "return"
    /\ manager.updates < MaxUpdates
    /\ manager' = [pc |-> "acquire", data |-> None, updates |-> manager.updates + 1]
    /\ UNCHANGED <<comms_lock, comms_queue, worker, net>>
    /\ UNCHANGED control_vars

\* line 67
CommsManager_acquire ==
    /\ manager.pc = "acquire"
    /\ lock_available(comms_lock)
    /\ comms_lock' = "manager"
    /\ manager' = [manager EXCEPT !.pc = "len"]
    /\ UNCHANGED <<comms_queue, worker, net>>
    /\ UNCHANGED control_vars

\* line 68
CommsManager_len ==
    /\ manager.pc = "len"
    /\ manager' = [manager EXCEPT !.pc = IF Len(comms_queue) > 0 THEN "read" ELSE "release"]
    /\ UNCHANGED <<comms_lock, comms_queue, worker, net>>
    /\ UNCHANGED control_vars

\* line 71: data = comms_queue[-1]
CommsManager_read ==
    /\ manager.pc = "read"
    /\ manager' = [manager EXCEPT !.pc = "clear", !.data = Some(comms_queue[Len(comms_queue)])]
    /\ UNCHANGED <<comms_lock, comms_queue, worker, net>>
    /\ UNCHANGED control_vars

\* line 72: comms_queue.clear()
CommsManager_clear ==
    /\ manager.pc = "clear"
    /\ comms_queue' = <<>>
    /\ net' = [net EXCEPT !.cleared = Len(net.appended),
                          !.waited = @ \/ worker.pc = "acquire"]
    /\ manager' = [manager EXCEPT !.pc = "release"]
    /\ UNCHANGED <<comms_lock, worker>>
    /\ UNCHANGED control_vars

\* line 73
CommsManager_release ==
    /\ manager.pc = "release"
    /\ comms_lock' = "free"
    /\ manager' = [manager EXCEPT !.pc = "accept"]
    /\ UNCHANGED <<comms_queue, worker, net>>
    /\ UNCHANGED control_vars

\* lines 75-133: with no data the position is projected ahead (or update
\* returns); with data the message is unpacked and accepted
CommsManager_accept ==
    /\ manager.pc = "accept"
    /\ net' = IF manager.data = None THEN net
              ELSE [net EXCEPT !.consumed = Append(@, manager.data[1])]
    /\ manager' = [manager EXCEPT !.pc = "return"]
    /\ UNCHANGED <<comms_lock, comms_queue, worker>>
    /\ UNCHANGED control_vars

\* the program that runs the comms manager: no controller is constructed in it
CommsProgInit ==
    /\ pc = "new"
    /\ cycles = 0
    /\ vehicle \in VehicleStates
    /\ vehicle.vc_mps = 0
    /\ inceptor_node \in PilotCmds
    /\ inceptor_node.throttle = 0
    /\ fcs = Unconstructed
    /\ loc = LocInit
    /\ control_node = [aileron |-> 0, elevator |-> 0, rudder |-> 0,
                       flaps_down |-> FALSE, flaps_up |-> FALSE, throttle |-> 0]
    /\ hist = HistStart(fcs, control_node, vehicle, inceptor_node, FALSE)
    /\ config = shipped_config
    /\ CommsInit

CommsNext ==
    \/ CommsWorker_recvfrom
    \/ CommsWorker_acquire
    \/ CommsWorker_append
    \/ CommsWorker_release
    \/ CommsManager_update
    \/ CommsManager_acquire
    \/ CommsManager_len
    \/ CommsManager_read
    \/ CommsManager_clear
    \/ CommsManager_release
    \/ CommsManager_accept

CommsSpec == CommsProgInit /\ [][CommsNext]_vars

-----------------------------------------------------------------------------
(* Claims *)

\* C1: anti-windup. Each stored integral term lies within its anti-windup limit
\* (0.25 roll, 0.5 pitch, 0.25 yaw) in every state, and once the integrators have
\* run the value each returned is the stored, clamped value.
C1_AntiWindup ==
    /\ Abs(fcs.integral.roll) <= 2500
    /\ Abs(fcs.integral.pitch) <= 5000
    /\ Abs(fcs.integral.yaw) <= 2500
    /\ After("integrate") =>
          /\ loc.aileron_int = fcs.integral.roll
          /\ loc.elevator_int = fcs.integral.pitch
          /\ loc.rudder_int = fcs.integral.yaw

\* C1 witness: the integrators ran on persistent rate errors and every axis sits
\* on its limit, having been inside it before the cycle
C1_Witness ==
    /\ After("integrate")
    /\ fcs.integral.roll = -2500 /\ hist.fcs_before.integral.roll > -2500
    /\ fcs.integral.pitch = -5000 /\ hist.fcs_before.integral.pitch > -5000
    /\ fcs.integral.yaw = 2500 /\ hist.fcs_before.integral.yaw < 2500

\* C2: airspeed floor. The filtered calibrated and true airspeeds and the true
\* airspeed the turn rate divides by are at least 25 m/s in every state, and
\* the qbar a cycle computes is positive.
C2_AirspeedFloor ==
    /\ fcs.vc_mps >= 2500
    /\ fcs.vtrue_mps >= 2500
    /\ loc.vtrue_mps >= 2500
    /\ After("fetch") => loc.qbar > 0

\* C2 witness: a cycle has filtered negative raw airspeeds
C2_Witness ==
    /\ After("fetch")
    /\ vehicle.vc_mps < 0
    /\ vehicle.vtrue_mps < 0
    /\ loc.qbar > 0

\* C3 as stated: the estimators run before every shaper operation, every shaper
\* operation (shape and integrate) before the allocator and the damper, and
\* allocator and damper before the composer.
C3_Original ==
    /\ \A e \in {"regime", "aero", "feedforward"}, o \in {"shape", "integrate"} : Before(e, o)
    /\ \A o \in {"shape", "integrate"}, u \in {"allocate", "damp"} : Before(o, u)
    /\ \A u \in {"allocate", "damp"} : Before(u, "compose")

\* C3 amended: the estimators run before every shaper operation; shape runs
\* before the allocator and the damper; integrate runs after the allocator and
\* before the damper; allocator, integrate and damper run before the composer.
C3_StageOrder ==
    /\ \A e \in {"regime", "aero", "feedforward"}, o \in {"shape", "integrate"} : Before(e, o)
    /\ \A u \in {"allocate", "damp"} : Before("shape", u)
    /\ Before("allocate", "integrate")
    /\ Before("integrate", "damp")
    /\ \A u \in {"allocate", "integrate", "damp"} : Before(u, "compose")

\* C3 witness: a cycle has run through the composer
C3_Witness == After("compose") /\ pc = "idle"

Steady ==
    /\ After("feedforward")
    /\ inceptor_node.aileron = 0 /\ inceptor_node.elevator = 0 /\ inceptor_node.rudder = 0
    /\ loc.phi_deg = 0
    /\ loc.p = 0 /\ loc.q = loc.baseline_q /\ loc.r = loc.baseline_r

\* the cycle before this one returned, on the same snapshots, and this cycle's
\* filter step left the filtered calibrated airspeed where it was
SettledRepeat ==
    /\ hist.prev_completed
    /\ hist.vehicle_before = vehicle
    /\ hist.inceptor_before = inceptor_node
    /\ hist.fcs_before.vc_mps = fcs.vc_mps

SameSurfaces ==
    /\ control_node.aileron = hist.control_before.aileron
    /\ control_node.elevator = hist.control_before.elevator
    /\ control_node.rudder = hist.control_before.rudder

C6_SingleMutation ==
    /\ \A x \in Persistent : hist.writes[x] <= 1
    /\ CycleEnded => \A x \in Persistent : hist.writes[x] = 1
    /\ (After("shape") /\ ~After("integrate")) => fcs.integral = hist.fcs_before.integral

\* C7 as stated: when a control cycle has ended, the throttle and flap outputs
\* are the pilot's.
C7_Passthrough ==
    CycleEnded =>
        /\ control_node.throttle = inceptor_node.throttle
        /\ control_node.flaps_up = inceptor_node.flaps_up
        /\ control_node.flaps_down = inceptor_node.flaps_down

\* confidence values on both sides of every candidate threshold
ConfidenceProbe == {0, 2500, 5000, 5001, 7500, 10000}

\* C8 as stated: the alpha and beta the cycle selected are the ones it would
\* have selected at any other confidence.
C8_Original ==
    After("aero") =>
        \A c \in ConfidenceProbe :
            alpha_beta(c, loc.theta_deg, vehicle.alpha_deg, vehicle.beta_deg)
                = [alpha_deg |-> loc.alpha_deg, beta_deg |-> loc.beta_deg]

\* C8 amended: the cycle switches on flying_confidence once, at 0.5: above it
\* alpha and beta are the sensed ones, at or below it alpha is the pitch angle
\* and beta is 0; confidences on one side of 0.5 select the same values, and
\* max_q follows the selected alpha.
C8_SingleThreshold ==
    /\ After("aero") =>
          /\ loc.flying_confidence > 5000 =>
                loc.alpha_deg = vehicle.alpha_deg /\ loc.beta_deg = vehicle.beta_deg
          /\ loc.flying_confidence <= 5000 =>
                loc.alpha_deg = loc.theta_deg /\ loc.beta_deg = 0
          /\ \A c \in ConfidenceProbe :
                (c > 5000) = (loc.flying_confidence > 5000) =>
                    alpha_beta(c, loc.theta_deg, vehicle.alpha_deg, vehicle.beta_deg)
                        = [alpha_deg |-> loc.alpha_deg, beta_deg |-> loc.beta_deg]
    /\ After("shape") => loc.max_q = Quot((13 - loc.alpha_deg) * 34907, 1000)

\* C8 witness: in flight the sensed alpha was selected where the ground branch
\* would have given the pitch angle, and max_q was computed from it
C8_Witness ==
    /\ After("shape")
    /\ loc.flying_confidence > 5000
    /\ loc.alpha_deg = vehicle.alpha_deg
    /\ loc.alpha_deg # loc.theta_deg

\* filtered airspeeds from the floor up to 700 m/s
ProbeAirspeeds == {2500, 3000, 3450, 3500, 3550, 4000, 6000, 70000}

\* C9 as stated: for the filtered calibrated airspeed of any cycle the regime
\* estimator raises nothing and gives a confidence in [0, 1] that is not below
\* the confidence of any lower airspeed nor above that of any higher one.
C9_RegimeTotal ==
    After("regime") =>
        /\ pc # "raised"
        /\ loc.flying_confidence \in 0..10000
        /\ \A v \in ProbeAirspeeds :
              /\ v <= fcs.vc_mps => sigmoid(regime_x(v)) <= loc.flying_confidence
              /\ v >= fcs.vc_mps => sigmoid(regime_x(v)) >= loc.flying_confidence

Malformed(c) ==
    \/ ~(lat_func_defined(c) /\ lon_func_defined(c))
    \/ \E h \in {c.roll, c.pitch, c.yaw} : ~tuning_consistent(h)

\* C11: configuration errors are fatal at initialization. A controller built
\* from a malformed configuration (a matrix or bias vector of the wrong shape,
\* min clamp above max clamp, a negative anti-windup limit) fails to construct,
\* so no control cycle is ever started on it.
C11_ConfigFatal ==
    Malformed(config) => pc \in {"new", "construct_failed"} /\ cycles = 0

\* C12: the feed-forward turn rate is computed from the filtered true airspeed
\* held in the controller state, the value the 0.99/0.01 filter wrote in the
\* same cycle: for |phi_deg| < 89, turn_rate = tan(phi) * -g / vtrue_filtered.
C12_FilteredTurnRate ==
    After("feedforward") /\ tan_guard(loc.phi_deg)
        => loc.turn_rate_rps = turn_rate(loc.phi_deg, fcs.vtrue_mps)

\* the newest datagram an update has taken so far: consumed, or in hand
Latest ==
    LET taken == {net.consumed[k] : k \in 1..Len(net.consumed)}
                    \cup (IF manager.data = None THEN {} ELSE {manager.data[1]})
    IN  IF taken = {} THEN 0 ELSE CHOOSE d \in taken : \A e \in taken : e <= d

\* C13: latest-wins queue under every interleaving of the worker thread and
\* update(). An update takes nothing (queue empty) or exactly the most recently
\* appended datagram, and leaves the queue empty of everything appended before
\* its critical section; what it discards is older than what it took; no
\* datagram is consumed twice and the consumed datagrams are in arrival order;
\* a datagram appended after the critical section stays queued.
C13_LatestWins ==
    /\ \A i, j \in 1..Len(net.consumed) : i < j => net.consumed[i] < net.consumed[j]
    /\ manager.pc \in {"clear", "release"} /\ manager.data # None
          => manager.data = Some(net.appended[Len(net.appended)])
    /\ manager.pc = "release" => comms_queue = <<>>
    /\ manager.pc = "release" /\ manager.data = None => net.cleared = Len(net.appended)
    /\ \A k \in 1..net.cleared : net.appended[k] <= Latest
    /\ comms_queue = SubSeq(net.appended, net.cleared + 1, Len(net.appended))

\* C13 witness: the worker waited for the lock while an update cleared two
\* queued datagrams, and a later update consumed the datagram appended after
\* that critical section
C13_Witness ==
    /\ net.waited
    /\ net.consumed = <<2, 3>>
    /\ manager.pc = "return"
    /\ comms_queue = <<>>

====
